---- MODULE Spec2Model ----
(***************************************************************************)
(* Model of the Img-s3 batch jobs:                                         *)
(*   src/serverC.js         single-pass run(), bucket source and sink      *)
(*   src/unnamed/part_000   image loopForever(batchSize, intervalMs)       *)
(*   src/unnamed/part_001   file-based run() (lines 1-120) and the prompt  *)
(*                          loopForever(intervalMs) (lines 122-273)        *)
(* `variant` says which of these programs the processes of a behaviour     *)
(* run: two single-pass runs race for the same destination, a loop is run  *)
(* by one process.  A sleep is not tied to the clock: an iteration may      *)
(* follow the previous one at any later or equal clock tick.               *)
(***************************************************************************)
EXTENDS Integers, Sequences, FiniteSets, TLC

VARIABLES
    variant,     \* which program the processes run
    clock,       \* wall clock, in ticks
    dirExists,   \* whether OUTPUT_DIR exists (file-based run)
    store,       \* destination: name -> object (bucket) or file (OUTPUT_DIR)
    pc,          \* each process's position
    wordsets,    \* local `wordsets`
    first,       \* pickTwoDistinct: local `first`
    second,      \* pickTwoDistinct: local `second`
    firstIdx,    \* position first was drawn from (history)
    secondIdx,   \* position second was drawn from (history)
    filename,    \* local `filename`
    nameAt,      \* clock value at which filename was computed (history)
    idx,         \* image loop: local `i`
    log,         \* operations of this run / iteration, in order (history)
    loaded,      \* wordsets.length seen by the size check (history)
    content,     \* Composer: raw response text
    revision,    \* Composer: which revision of generatePrompts
    result       \* Composer: what it returned

procVars == <<pc, wordsets, first, second, firstIdx, secondIdx, filename, nameAt, idx, log, loaded>>
envVars  == <<clock, dirExists, store>>
compVars == <<content, revision, result>>
vars     == <<variant, clock, dirExists, store, pc, wordsets, first, second, firstIdx,
              secondIdx, filename, nameAt, idx, log, loaded, content, revision, result>>

(***************************************************************************)
(* Bounds                                                                  *)
(***************************************************************************)
MaxFiles == 2        \* files in one listing of the wordsets bucket
MaxEntries == 2      \* entries of one document's `wordsets` array
MaxRows == 2         \* rows returned by the wordsets table
MaxClock == 3        \* last clock tick
TicksPerSec == 2     \* clock ticks in a second (1000 ms, scaled)
SecPerMin == 2       \* seconds in a minute (60, scaled)
MaxContent == 4      \* characters of a raw response

Procs == {1, 2}
Undefined == <<"undefined">>
NoName == [prefix |-> "", ts |-> <<>>, index |-> 0, ext |-> "", suffix |-> ""]

Min(a, b) == IF a < b THEN a ELSE b

RECURSIVE SeqsUpTo(_, _)
SeqsUpTo(S, n) ==
    IF n = 0 THEN {<<>>}
    ELSE LET shorter == SeqsUpTo(S, n - 1)
         IN  shorter \cup {Append(s, x) : s \in {t \in shorter : Len(t) = n - 1}, x \in S}

(***************************************************************************)
(* Wordset Source: fetchAllWordsets                                        *)
(* An entry of a document's `wordsets` array is taken as it is parsed:     *)
(* "arr" is an array literal (JSON.parse builds a fresh object for it),    *)
(* "p" is a primitive (a string, a number, null).  Two objects are === only *)
(* when they are the same object; two equal primitives are ===.            *)
(***************************************************************************)
EntryLiterals == {"arr", "p"}

Bodies == {[parses |-> FALSE, isArray |-> FALSE, entries |-> <<>>],
           [parses |-> TRUE, isArray |-> FALSE, entries |-> <<>>]}
          \cup {[parses |-> TRUE, isArray |-> TRUE, entries |-> e] :
                    e \in SeqsUpTo(EntryLiterals, MaxEntries)}

FileKinds == {[json |-> FALSE, downloads |-> TRUE, body |-> CHOOSE b \in Bodies : ~b.parses],
              [json |-> TRUE, downloads |-> FALSE, body |-> CHOOSE b \in Bodies : ~b.parses]}
             \cup {[json |-> TRUE, downloads |-> TRUE, body |-> b] : b \in Bodies}

Listings == {[error |-> TRUE, files |-> <<>>]}
            \cup {[error |-> FALSE, files |-> f] : f \in SeqsUpTo(FileKinds, MaxFiles)}

\* wordsets.push(...parsed.wordsets) for one file, or nothing
PushedBy(file) ==
    IF ~file.json THEN <<>>
    ELSE IF ~file.downloads THEN <<>>
    ELSE IF ~file.body.parses THEN <<>>
    ELSE IF file.body.isArray THEN file.body.entries
    ELSE <<>>

RECURSIVE PushAll(_)
PushAll(files) ==
    IF files = <<>> THEN <<>> ELSE PushedBy(Head(files)) \o PushAll(Tail(files))

\* the value at position k of the collection: a fresh object or a primitive
Entry(lit, k) == IF lit = "arr" THEN <<"obj", k>> ELSE <<"prim", 0>>

fetchAllWordsets(listing) ==
    IF listing.error \/ Len(listing.files) = 0 THEN <<>>
    ELSE LET raw == PushAll(listing.files)
         IN  [k \in 1..Len(raw) |-> Entry(raw[k], k)]

\* loadWordsetsFromSupabase: one fresh array per row, [] on error
loadWordsetsFromSupabase(error, rows) ==
    IF error THEN <<>> ELSE [k \in 1..rows |-> <<"obj", k>>]

IsArrayValue(v) == v[1] = "obj"

(***************************************************************************)
(* Wordset Selector: pickTwoDistinct                                       *)
(***************************************************************************)
\* arr[Math.floor(Math.random() * arr.length)]: any position of arr; for an
\* empty array the index is 0 and arr[0] is undefined
DrawIndexes(arr) == IF Len(arr) = 0 THEN {0} ELSE 1..Len(arr)
At(arr, i) == IF i \in 1..Len(arr) THEN arr[i] ELSE Undefined

\* the while condition: second === first && arr.length > 1
NoLoopCond(a, b, arr) == FALSE
LoopCond(a, b, arr) == b = a /\ Len(arr) > 1

PickFirst(p) ==
    /\ pc[p] = "pick"
    /\ \E i \in DrawIndexes(wordsets[p]) :
          /\ first' = [first EXCEPT ![p] = At(wordsets[p], i)]
          /\ second' = [second EXCEPT ![p] = At(wordsets[p], i)]
          /\ firstIdx' = [firstIdx EXCEPT ![p] = i]
          /\ secondIdx' = [secondIdx EXCEPT ![p] = i]
    /\ pc' = [pc EXCEPT ![p] = "pickLoop"]
    /\ UNCHANGED <<variant, envVars, compVars, wordsets, filename, nameAt, idx, log, loaded>>

RedrawAt(p, j) ==
    /\ pc[p] = "pickLoop"
    /\ LoopCond(first[p], second[p], wordsets[p])
    /\ j \in DrawIndexes(wordsets[p])
    /\ second' = [second EXCEPT ![p] = At(wordsets[p], j)]
    /\ secondIdx' = [secondIdx EXCEPT ![p] = j]
    /\ UNCHANGED <<variant, envVars, compVars, pc, wordsets, first, firstIdx, filename,
                   nameAt, idx, log, loaded>>

MaxDraw == MaxFiles * MaxEntries

Redraw(p) == \E j \in 0..MaxDraw : RedrawAt(p, j)

PickReturn(p) ==
    /\ pc[p] = "pickLoop"
    /\ ~LoopCond(first[p], second[p], wordsets[p])
    /\ pc' = [pc EXCEPT ![p] = "picked"]
    /\ UNCHANGED <<variant, envVars, compVars, wordsets, first, second, firstIdx, secondIdx,
                   filename, nameAt, idx, log, loaded>>

(***************************************************************************)
(* Initial values shared by the specifications                             *)
(***************************************************************************)
IdleProcs(start) ==
    /\ pc = [p \in Procs |-> start[p]]
    /\ first = [p \in Procs |-> Undefined]
    /\ second = [p \in Procs |-> Undefined]
    /\ firstIdx = [p \in Procs |-> 0]
    /\ secondIdx = [p \in Procs |-> 0]
    /\ filename = [p \in Procs |-> NoName]
    /\ nameAt = [p \in Procs |-> 0]
    /\ idx = [p \in Procs |-> 0]
    /\ log = [p \in Procs |-> <<>>]
    /\ loaded = [p \in Procs |-> 0]

IdleEnv ==
    /\ clock = 0
    /\ dirExists = FALSE
    /\ store = <<>>

IdleComposer ==
    /\ content = <<>>
    /\ revision = "none"
    /\ result = <<"none">>

(***************************************************************************)
(* PickSpec: pickTwoDistinct applied to every collection fetchAllWordsets  *)
(* can return                                                              *)
(***************************************************************************)
PickInit ==
    /\ variant = "pick"
    /\ IdleEnv
    /\ IdleComposer
    /\ IdleProcs([p \in Procs |-> IF p = 1 THEN "pick" ELSE "off"])
    /\ \E l \in Listings :
          wordsets = [p \in Procs |-> IF p = 1 THEN fetchAllWordsets(l) ELSE <<>>]

PickNext == PickFirst(1) \/ Redraw(1) \/ PickReturn(1)

PickSpec == PickInit /\ [][PickNext]_vars

\* fair random draws: every index that stays drawable is eventually drawn
FairPick(p) ==
    /\ WF_vars(PickFirst(p))
    /\ WF_vars(PickReturn(p))
    /\ \A j \in 0..MaxDraw : WF_vars(RedrawAt(p, j))

FairPickSpec == PickSpec /\ FairPick(1)

(***************************************************************************)
(* Claims about pickTwoDistinct                                            *)
(***************************************************************************)
Range(s) == {s[k] : k \in 1..Len(s)}

\* C6: when pickTwoDistinct returns, first and second are members of the
\* collection; for a collection of two or more they are not the same element
\* (neither the same value under === nor the same position); for a collection
\* of exactly one element both are that element.
C6_PickTwoDistinct ==
    pc[1] = "picked" =>
        LET arr == wordsets[1] IN
        /\ Len(arr) >= 1 => first[1] \in Range(arr) /\ second[1] \in Range(arr)
        /\ Len(arr) >= 2 => first[1] # second[1] /\ firstIdx[1] # secondIdx[1]
        /\ Len(arr) = 1 => first[1] = arr[1] /\ second[1] = arr[1]

\* a return on a collection of three or more that holds === duplicates
C6_Witness ==
    /\ pc[1] = "picked"
    /\ Len(wordsets[1]) >= 3
    /\ \E i, j \in 1..Len(wordsets[1]) : i # j /\ wordsets[1][i] = wordsets[1][j]
    /\ first[1] # second[1]

\* C10: on every collection of length >= 2 that fetchAllWordsets can return,
\* pickTwoDistinct eventually returns (under fair draws).
C10_PickTerminates ==
    (pc[1] = "pick" /\ Len(wordsets[1]) >= 2) ~> (pc[1] = "picked")

\* what does hold: it returns whenever two entries of the collection differ
PickTerminatesOnDistinct ==
    (pc[1] = "pick" /\ Len(wordsets[1]) >= 2 /\ Cardinality(Range(wordsets[1])) >= 2)
        ~> (pc[1] = "picked")

(***************************************************************************)
(* Prompt Composer: what generatePrompts does with the raw response        *)
(* A text is a sequence of characters.  JSON.parse is modelled on the      *)
(* texts over Chars: whitespace, numbers 1.., strings "..." , arrays [...] *)
(***************************************************************************)
Quote == "\""
Newline == "\n"
Chars == {"[", "]", Quote, "a", "1", ".", ")", " ", Newline}
Whitespace == {" ", Newline}
Digits == {"1"}
Null == <<"null">>

CharAt(s, i) == IF i \in 1..Len(s) THEN s[i] ELSE "EOF"

RECURSIVE SkipWhile(_, _, _)
\* the first index at or after i whose character is not in S
SkipWhile(s, i, S) == IF CharAt(s, i) \in S THEN SkipWhile(s, i + 1, S) ELSE i

Bad == [ok |-> FALSE, next |-> 0, kind |-> "none", text |-> <<>>, elems |-> <<>>]
Good(k, n, t, e) == [ok |-> TRUE, next |-> n, kind |-> k, text |-> t, elems |-> e]

\* number: digits, then optionally "." and digits
JsonNumber(s, i) ==
    LET j == SkipWhile(s, i, Digits) IN
    IF j = i THEN Bad
    ELSE IF CharAt(s, j) = "."
         THEN LET k == SkipWhile(s, j + 1, Digits) IN
              IF k = j + 1 THEN Bad ELSE Good("number", k, SubSeq(s, i, k - 1), <<>>)
         ELSE Good("number", j, SubSeq(s, i, j - 1), <<>>)

\* string: a quote, characters that are neither a quote nor a control
\* character, a quote
JsonString(s, i) ==
    LET j == SkipWhile(s, i + 1, Chars \ {Quote, Newline}) IN
    IF CharAt(s, i) = Quote /\ CharAt(s, j) = Quote
    THEN Good("string", j + 1, SubSeq(s, i, j), <<>>)
    ELSE Bad

RECURSIVE JsonValue(_, _)
\* array: "[" ws "]" or "[" ws value ws "]" (Chars holds no comma)
JsonArray(s, i) ==
    LET j == SkipWhile(s, i + 1, Whitespace) IN
    IF CharAt(s, j) = "]" THEN Good("array", j + 1, SubSeq(s, i, j), <<>>)
    ELSE LET v == JsonValue(s, j) IN
         IF ~v.ok THEN Bad
         ELSE LET k == SkipWhile(s, v.next, Whitespace) IN
              IF CharAt(s, k) = "]"
              THEN Good("array", k + 1, SubSeq(s, i, k), <<v.text>>)
              ELSE Bad

JsonValue(s, i) ==
    IF CharAt(s, i) = "[" THEN JsonArray(s, i)
    ELSE IF CharAt(s, i) = Quote THEN JsonString(s, i)
    ELSE JsonNumber(s, i)

\* JSON.parse(content): the value, or Bad for a SyntaxError
JsonParse(s) ==
    LET v == JsonValue(s, SkipWhile(s, 1, Whitespace)) IN
    IF v.ok /\ SkipWhile(s, v.next, Whitespace) = Len(s) + 1 THEN v ELSE Bad

RECURSIVE Split(_, _)
\* s.split(sep)
Split(s, sep) ==
    LET n == SkipWhile(s, 1, Chars \ {sep}) IN
    IF n > Len(s) THEN <<s>>
    ELSE <<SubSeq(s, 1, n - 1)>> \o Split(SubSeq(s, n + 1, Len(s)), sep)

RECURSIVE TrimEnd(_)
TrimEnd(s) ==
    IF s # <<>> /\ s[Len(s)] \in Whitespace THEN TrimEnd(SubSeq(s, 1, Len(s) - 1)) ELSE s

\* line.trim()
Trim(s) == TrimEnd(SubSeq(s, SkipWhile(s, 1, Whitespace), Len(s)))

\* line.replace(/^\d+[\).]\s*/, '')
StripEnum(s) ==
    LET d == SkipWhile(s, 1, Digits) IN
    IF d > 1 /\ CharAt(s, d) \in {")", "."}
    THEN SubSeq(s, SkipWhile(s, d + 1, Whitespace), Len(s))
    ELSE s

RECURSIVE CollapseWs(_)
\* text.replace(/\s+/g, ' ')
CollapseWs(s) ==
    IF s = <<>> THEN <<>>
    ELSE IF s[1] \in Whitespace
         THEN <<" ">> \o CollapseWs(SubSeq(s, SkipWhile(s, 1, Whitespace), Len(s)))
         ELSE <<s[1]>> \o CollapseWs(Tail(s))

\* text.replace(/^"|"$/g, '')
StripQuotes(s) ==
    LET a == IF CharAt(s, 1) = Quote THEN Tail(s) ELSE s
    IN  IF a # <<>> /\ a[Len(a)] = Quote THEN SubSeq(a, 1, Len(a) - 1) ELSE a

RECURSIVE Join(_, _)
\* words.join(sep)
Join(words, sep) ==
    IF words = <<>> THEN <<>>
    ELSE IF Len(words) = 1 THEN words[1]
    ELSE words[1] \o <<sep>> \o Join(Tail(words), sep)

maxWords == 20

\* sanitizePrompt(text, maxWords = 20)
sanitizePrompt(text) ==
    LET words == Split(CollapseWs(StripQuotes(Trim(text))), " ")
    IN  Join(SubSeq(words, 1, Min(maxWords, Len(words))), " ")

Map(f(_), s) == [k \in 1..Len(s) |-> f(s[k])]
NonEmpty(l) == Len(l) > 0

\* the fallback of the creative revisions
LinesOf(text) == SelectSeq(Map(LAMBDA l : StripEnum(Trim(l)), Split(text, Newline)), NonEmpty)

\* the whole of the literal revision
SanitizedLinesOf(text) ==
    SelectSeq(Map(LAMBDA l : sanitizePrompt(StripEnum(Trim(l))), Split(text, Newline)), NonEmpty)

Revisions == {"serverC", "fromWordsets", "literal"}
TriesJson(rev) == rev \in {"serverC", "fromWordsets"}

\* the try/catch of the creative revisions: a SyntaxError and the Error thrown
\* for a non-array are both caught
ParseOrThrow(text) ==
    LET v == JsonParse(text) IN
    IF v.ok /\ v.kind = "array" THEN <<"array", v.elems>>
    ELSE IF v.ok THEN <<"throw", <<>>>>
    ELSE <<"lines", LinesOf(text)>>
ParseOrFallBack(text) ==
    LET v == JsonParse(text) IN
    IF v.ok /\ v.kind = "array" THEN <<"array", v.elems>> ELSE <<"lines", LinesOf(text)>>

\* generatePrompts / generatePromptsFromWordsets from `content` on
generatePrompts(rev, text) ==
    IF text = Null \/ text = <<>> THEN <<"throw", <<>>>>
    ELSE IF TriesJson(rev) THEN ParseOrFallBack(text)
    ELSE <<"lines", SanitizedLinesOf(text)>>

Compose ==
    /\ variant = "compose"
    /\ result = <<"none">>
    /\ result' = generatePrompts(revision, content)
    /\ UNCHANGED <<variant, envVars, procVars, content, revision>>

ComposeInit ==
    /\ variant = "compose"
    /\ IdleEnv
    /\ IdleProcs([p \in Procs |-> "off"])
    /\ wordsets = [p \in Procs |-> <<>>]
    /\ content \in SeqsUpTo(Chars, MaxContent) \cup {Null}
    /\ revision \in Revisions
    /\ result = <<"none">>

ComposeNext == Compose

ComposeSpec == ComposeInit /\ [][ComposeNext]_vars

(***************************************************************************)
(* Claims about the Composer                                               *)
(***************************************************************************)
\* how many leading (trailing) characters of l are in S
LeadCount(l, S) == Cardinality({i \in 1..Len(l) : \A k \in 1..i : l[k] \in S})
TrailCount(l, S) == Cardinality({i \in 1..Len(l) : \A k \in i..Len(l) : l[k] \in S})

Trimmed(l) == SubSeq(l, LeadCount(l, Whitespace) + 1, Len(l) - TrailCount(l, Whitespace))

\* a trimmed line without its enumeration prefix: digits, then "." or ")",
\* then any whitespace
Cleaned(l) ==
    LET t == Trimmed(l)
        d == LeadCount(t, Digits)
        rest == SubSeq(t, d + 2, Len(t))
    IN  IF d >= 1 /\ d < Len(t) /\ t[d + 1] \in {".", ")"}
        THEN SubSeq(rest, LeadCount(rest, Whitespace) + 1, Len(rest))
        ELSE t

NewlinesUpTo(t, i) == Cardinality({j \in 1..i : t[j] = Newline})
\* where the k-th line of t ends (the k-th newline, or the end of the text)
LineEnd(t, k) ==
    IF k > NewlinesUpTo(t, Len(t)) THEN Len(t) + 1
    ELSE CHOOSE i \in 1..Len(t) : t[i] = Newline /\ NewlinesUpTo(t, i) = k
LineNo(t, k) == SubSeq(t, (IF k = 1 THEN 0 ELSE LineEnd(t, k - 1)) + 1, LineEnd(t, k) - 1)

ExpectedLines(t) ==
    SelectSeq([k \in 1..(NewlinesUpTo(t, Len(t)) + 1) |-> Cleaned(LineNo(t, k))], NonEmpty)

\* the parsing policy on a response that has content
ParsingPolicy ==
    LET v == JsonParse(content) IN
    IF v.ok /\ v.kind = "array"
    THEN result = <<"array", v.elems>>
    ELSE result = <<"lines", ExpectedLines(content)>>

Composed == result # <<"none">> /\ content # Null /\ content # <<>>

\* C7 as stated: every revision of the Composer returns a JSON array
\* unchanged and otherwise the cleaned, non-empty lines of the response.
C7_EveryRevisionParsesJson == Composed => ParsingPolicy

\* C7 amended: the two revisions that try JSON.parse (generatePrompts of
\* serverC.js, generatePromptsFromWordsets) follow the policy; the literal
\* revision never returns a parsed array: it returns lines whatever the text.
C7_JsonRevisionsParseJson ==
    Composed =>
        /\ TriesJson(revision) => ParsingPolicy
        /\ ~TriesJson(revision) => result[1] = "lines"

\* the response 1.1 is JSON but no array: the fallback runs and strips "1."
C7_Witness ==
    /\ revision = "serverC"
    /\ content = <<"1", ".", "1">>
    /\ result = <<"lines", <<<<"1">>>>>>

(***************************************************************************)
(* Output names: getTimestampFilename / getOutputFilename /                *)
(* getTimestampedFilename                                                  *)
(***************************************************************************)
\* now.toISOString().replace(/[-:T]/g, ''): YYYYMMDD HH mm ss . sss Z, each
\* field with its width in characters and its value at clock tick t
IsoFields(t) ==
    << [w |-> 8, v |-> 0],
       [w |-> 2, v |-> 0],
       [w |-> 2, v |-> t \div (TicksPerSec * SecPerMin)],
       [w |-> 2, v |-> (t \div TicksPerSec) % SecPerMin],
       [w |-> 1, v |-> 0],
       [w |-> 3, v |-> t % TicksPerSec],
       [w |-> 1, v |-> 0] >>

RECURSIVE Slice(_, _)
\* .slice(0, n): the fields that lie within the first n characters
Slice(fields, n) ==
    IF fields = <<>> \/ Head(fields).w > n THEN <<>>
    ELSE <<Head(fields).v>> \o Slice(Tail(fields), n - Head(fields).w)

SliceLen == 14

TimestampToMinute(t) == Slice(IsoFields(t), SliceLen - 2)
Timestamp(t) == Slice(IsoFields(t), SliceLen)

getTimestampFilename(t) ==
    [prefix |-> "generated-prompts", ts |-> Timestamp(t), index |-> 0, ext |-> ".json",
     suffix |-> ""]

getOutputFilename(t) ==
    [prefix |-> "generated-prompts", ts |-> Timestamp(t), index |-> 0, ext |-> ".json",
     suffix |-> ""]

getTimestampedFilename(t, index) ==
    [prefix |-> "image", ts |-> Timestamp(t), index |-> index + 1, ext |-> ".png",
     suffix |-> ""]

\* filepath + '.done'
MarkerPath(path) == [path EXCEPT !.suffix = path.suffix \o ".done"]

\* the functions each program defines, and the one it calls for the name
DefinedFunctions(v) ==
    CASE v = "bucketRun" ->
            {"getTimestampFilename", "fetchAllWordsets", "pickTwoDistinct", "generatePrompts",
             "uploadPromptsToBucket", "run"}
      [] v = "fileRun" ->
            {"pickTwoDistinct", "loadWordsetsFromSupabase", "generatePromptsFromWordsets",
             "getOutputFilename", "run"}
      [] v = "promptLoop" ->
            {"getTimestampFilename", "fetchAllWordsets", "pickTwoDistinct", "sanitizePrompt",
             "generatePrompts", "uploadPromptsToBucket", "loopForever"}
      [] OTHER -> {}

NameCallee(v) ==
    CASE v = "bucketRun" -> "getTimestampFilename"
      [] v = "fileRun" -> "getOutputFilename"
      [] v = "promptLoop" -> "getTimestampedFilename"
      [] OTHER -> "none"

NameFor(v, t) == IF v = "fileRun" THEN getOutputFilename(t) ELSE getTimestampFilename(t)

(***************************************************************************)
(* Destination store                                                       *)
(***************************************************************************)
\* supabase.storage.from(bucket).upload(name, body, { upsert })
StorageUpload(st, name, obj, upsert) ==
    IF name \in DOMAIN st /\ ~upsert
    THEN [error |-> TRUE, store |-> st]
    ELSE [error |-> FALSE, store |-> (name :> obj) @@ st]

UpsertAlways(v) == TRUE
Upsert(v) == FALSE

(***************************************************************************)
(* Programs                                                                *)
(***************************************************************************)
RunVariants == {"bucketRun", "fileRun"}
LoopVariants == {"promptLoop", "imageLoop"}
BucketVariants == {"bucketRun", "promptLoop", "imageLoop"}
PairingVariants == {"bucketRun", "fileRun", "promptLoop"}
Variants == RunVariants \cup LoopVariants

Event(op, name, outcome) == [op |-> op, name |-> name, outcome |-> outcome]
Logged(p, e) == [log EXCEPT ![p] = Append(@, e)]

\* where an exception thrown by a step takes the process: run() rejects, the
\* loop's catch falls through to the sleep at the end of the loop body
OnThrow(v) == IF v \in RunVariants THEN "failed" ELSE "sleep"
\* where the process is when its pass is over
OnFinished(v) == IF v \in RunVariants THEN "done" ELSE "sleep"
\* the early return / the sleep and `continue` of the size check
OnTooFew(v) == IF v \in RunVariants THEN "done" ELSE "sleepEarly"

\* the documents a pass may find in the wordsets bucket
RunListings == {l \in Listings : Len(l.files) <= 1}

\* fs.mkdir(OUTPUT_DIR, { recursive: true })
Mkdir(p) ==
    /\ variant = "fileRun"
    /\ pc[p] = "start"
    /\ \/ /\ dirExists' = TRUE
          /\ log' = Logged(p, Event("mkdir", NoName, IF dirExists THEN "exists" ELSE "created"))
          /\ pc' = [pc EXCEPT ![p] = "fetch"]
       \/ /\ log' = Logged(p, Event("mkdir", NoName, "error"))
          /\ pc' = [pc EXCEPT ![p] = OnThrow(variant)]
          /\ UNCHANGED dirExists
    /\ UNCHANGED <<variant, clock, store, compVars, wordsets, first, second, firstIdx,
                   secondIdx, filename, nameAt, idx, loaded>>

\* const wordsets = await fetchAllWordsets() / loadWordsetsFromSupabase();
\* in the loops this is where an iteration starts
Fetch(p) ==
    /\ variant \in Variants
    /\ pc[p] = "fetch"
    /\ \/ /\ \E w \in IF variant = "fileRun"
                      THEN {loadWordsetsFromSupabase(e, n) : e \in BOOLEAN, n \in 0..MaxRows}
                      ELSE {fetchAllWordsets(l) : l \in RunListings} :
                wordsets' = [wordsets EXCEPT ![p] = w]
          /\ pc' = [pc EXCEPT ![p] = "check"]
       \/ /\ pc' = [pc EXCEPT ![p] = OnThrow(variant)]
          /\ wordsets' = [wordsets EXCEPT ![p] = <<>>]
    /\ log' = IF variant \in LoopVariants THEN [log EXCEPT ![p] = <<>>] ELSE log
    /\ loaded' = [loaded EXCEPT ![p] = 0]
    /\ first' = [first EXCEPT ![p] = Undefined]
    /\ second' = [second EXCEPT ![p] = Undefined]
    /\ firstIdx' = [firstIdx EXCEPT ![p] = 0]
    /\ secondIdx' = [secondIdx EXCEPT ![p] = 0]
    /\ idx' = [idx EXCEPT ![p] = 0]
    /\ UNCHANGED <<variant, envVars, compVars, filename, nameAt>>

\* if (wordsets.length < 2) / if (wordsets.length < 1)
TooFewBelowOne(v, n) == n < 1
TooFew(v, n) == IF v = "imageLoop" THEN n < 1 ELSE n < 2

Check(p) ==
    /\ variant \in Variants
    /\ pc[p] = "check"
    /\ loaded' = [loaded EXCEPT ![p] = Len(wordsets[p])]
    /\ pc' = [pc EXCEPT ![p] =
                 IF TooFew(variant, Len(wordsets[p])) THEN OnTooFew(variant)
                 ELSE IF variant = "imageLoop" THEN "item" ELSE "pick"]
    /\ UNCHANGED <<variant, envVars, compVars, wordsets, first, second, firstIdx, secondIdx,
                   filename, nameAt, idx, log>>

\* console.log(`... ${ws1.join(', ')} ... ${ws2.join(', ')}`): a primitive
\* entry has no join, which is a TypeError
LogSelected(p) ==
    /\ variant \in PairingVariants
    /\ pc[p] = "picked"
    /\ pc' = [pc EXCEPT ![p] =
                 IF IsArrayValue(first[p]) /\ IsArrayValue(second[p]) THEN "generate"
                 ELSE OnThrow(variant)]
    /\ UNCHANGED <<variant, envVars, compVars, wordsets, first, second, firstIdx, secondIdx,
                   filename, nameAt, idx, log, loaded>>

\* const prompts = await generatePrompts(ws1, ws2): one call of the
\* generation capability, which returns a batch or throws.  wordsets, ws1 and
\* ws2 are not read after this call, and are dropped here.
Generate(p) ==
    /\ variant \in PairingVariants
    /\ pc[p] = "generate"
    /\ \E outcome \in {"ok", "throw"} :
          /\ log' = Logged(p, Event("generate", NoName, outcome))
          /\ pc' = [pc EXCEPT ![p] = IF outcome = "ok" THEN "name" ELSE OnThrow(variant)]
    /\ wordsets' = [wordsets EXCEPT ![p] = <<>>]
    /\ first' = [first EXCEPT ![p] = Undefined]
    /\ second' = [second EXCEPT ![p] = Undefined]
    /\ firstIdx' = [firstIdx EXCEPT ![p] = 0]
    /\ secondIdx' = [secondIdx EXCEPT ![p] = 0]
    /\ UNCHANGED <<variant, envVars, compVars, filename, nameAt, idx, loaded>>

\* const filename = <NameCallee>(): a ReferenceError when the program does not
\* define the function it calls
AfterName(v) ==
    IF NameCallee(v) \notin DefinedFunctions(v) THEN OnThrow(v)
    ELSE IF v = "fileRun" THEN "write" ELSE "upload"

Name(p) ==
    /\ variant \in PairingVariants
    /\ pc[p] = "name"
    /\ pc' = [pc EXCEPT ![p] = AfterName(variant)]
    /\ IF NameCallee(variant) \in DefinedFunctions(variant)
       THEN /\ filename' = [filename EXCEPT ![p] = NameFor(variant, clock)]
            /\ nameAt' = [nameAt EXCEPT ![p] = clock]
       ELSE UNCHANGED <<filename, nameAt>>
    /\ UNCHANGED <<variant, envVars, compVars, wordsets, first, second, firstIdx, secondIdx,
                   idx, log, loaded>>

\* uploadPromptsToBucket(prompts, filename): the upload, then log and return
\* whatever its outcome
Upload(p) ==
    /\ variant \in {"bucketRun", "promptLoop"}
    /\ pc[p] = "upload"
    /\ \/ LET r == StorageUpload(store, filename[p], [by |-> p, state |-> "full"], Upsert(variant))
          IN  /\ store' = r.store
              /\ log' = Logged(p, Event("upload", filename[p],
                                        IF r.error THEN "collision" ELSE "ok"))
       \/ /\ log' = Logged(p, Event("upload", filename[p], "error"))
          /\ UNCHANGED store
    /\ pc' = [pc EXCEPT ![p] = OnFinished(variant)]
    /\ UNCHANGED <<variant, clock, dirExists, compVars, wordsets, first, second, firstIdx,
                   secondIdx, filename, nameAt, idx, loaded>>

\* await fs.writeFile(filepath, JSON.stringify(...), 'utf-8'), first half:
\* the file is opened for writing, which creates or truncates it
WriteOpen(p) ==
    /\ variant = "fileRun"
    /\ pc[p] = "write"
    /\ \/ /\ store' = (filename[p] :> [by |-> p, state |-> "partial"]) @@ store
          /\ pc' = [pc EXCEPT ![p] = "writing"]
          /\ UNCHANGED log
       \/ /\ log' = Logged(p, Event("write", filename[p], "error"))
          /\ pc' = [pc EXCEPT ![p] = OnThrow(variant)]
          /\ UNCHANGED store
    /\ UNCHANGED <<variant, clock, dirExists, compVars, wordsets, first, second, firstIdx,
                   secondIdx, filename, nameAt, idx, loaded>>

\* what follows the awaited payload write: line 113 when it resolved, the
\* rejection of run() when it threw
AlwaysMarker(outcome) == "marker"
AfterPayloadWrite(outcome) == IF outcome = "ok" THEN "marker" ELSE "failed"

\* second half: the data is written and the file closed, or the write fails
\* and leaves what was written so far
WriteFinish(p) ==
    /\ variant = "fileRun"
    /\ pc[p] = "writing"
    /\ \E outcome \in {"ok", "error"} :
          /\ store' = IF outcome = "ok"
                      THEN (filename[p] :> [by |-> p, state |-> "full"]) @@ store
                      ELSE store
          /\ log' = Logged(p, Event("write", filename[p], outcome))
          /\ pc' = [pc EXCEPT ![p] = AfterPayloadWrite(outcome)]
    /\ UNCHANGED <<variant, clock, dirExists, compVars, wordsets, first, second, firstIdx,
                   secondIdx, filename, nameAt, idx, loaded>>

\* await fs.writeFile(filepath + '.done', '', 'utf-8')
WriteMarker(p) ==
    /\ variant = "fileRun"
    /\ pc[p] = "marker"
    /\ \/ /\ store' = (MarkerPath(filename[p]) :> [by |-> p, state |-> "full"]) @@ store
          /\ log' = Logged(p, Event("marker", MarkerPath(filename[p]), "ok"))
          /\ pc' = [pc EXCEPT ![p] = OnFinished(variant)]
       \/ /\ log' = Logged(p, Event("marker", MarkerPath(filename[p]), "error"))
          /\ pc' = [pc EXCEPT ![p] = OnThrow(variant)]
          /\ UNCHANGED store
    /\ UNCHANGED <<variant, clock, dirExists, compVars, wordsets, first, second, firstIdx,
                   secondIdx, filename, nameAt, idx, loaded>>

batchSize == 2       \* items of one batch (loopForever's default is 5, scaled)

\* the head of the inner for loop of the image loopForever: i < batchSize,
\* pickOneRandom(wordsets), buildPrompt(ws) (wordset.join: a TypeError for a
\* primitive entry, thrown outside the inner try)
Item(p) ==
    /\ variant = "imageLoop"
    /\ pc[p] = "item"
    /\ IF idx[p] < batchSize
       THEN \E i \in DrawIndexes(wordsets[p]) :
               pc' = [pc EXCEPT ![p] =
                         IF IsArrayValue(At(wordsets[p], i)) THEN "genImage"
                         ELSE OnThrow(variant)]
       ELSE pc' = [pc EXCEPT ![p] = OnFinished(variant)]
    /\ log' = [log EXCEPT ![p] = <<>>]
    /\ UNCHANGED <<variant, envVars, compVars, wordsets, first, second, firstIdx, secondIdx,
                   filename, nameAt, idx, loaded>>

\* generateImage up to the download: openai.images.generate, the url check,
\* downloadImageBuffer; a throw is caught by the inner catch, then i++
GenerateImage(p) ==
    /\ variant = "imageLoop"
    /\ pc[p] = "genImage"
    /\ \E outcome \in {"ok", "throw"} :
          /\ log' = Logged(p, Event("generate", NoName, outcome))
          /\ pc' = [pc EXCEPT ![p] = IF outcome = "ok" THEN "nameImage" ELSE "item"]
          /\ idx' = [idx EXCEPT ![p] = IF outcome = "ok" THEN @ ELSE @ + 1]
    /\ UNCHANGED <<variant, envVars, compVars, wordsets, first, second, firstIdx, secondIdx,
                   filename, nameAt, loaded>>

\* const filename = getTimestampedFilename(index)
NameImage(p) ==
    /\ variant = "imageLoop"
    /\ pc[p] = "nameImage"
    /\ filename' = [filename EXCEPT ![p] = getTimestampedFilename(clock, idx[p])]
    /\ nameAt' = [nameAt EXCEPT ![p] = clock]
    /\ pc' = [pc EXCEPT ![p] = "uploadImage"]
    /\ UNCHANGED <<variant, envVars, compVars, wordsets, first, second, firstIdx, secondIdx,
                   idx, log, loaded>>

\* await uploadImage(buffer, filename), then i++
UploadImage(p) ==
    /\ variant = "imageLoop"
    /\ pc[p] = "uploadImage"
    /\ \/ LET r == StorageUpload(store, filename[p], [by |-> p, state |-> "full"], Upsert(variant))
          IN  /\ store' = r.store
              /\ log' = Logged(p, Event("upload", filename[p],
                                        IF r.error THEN "collision" ELSE "ok"))
       \/ /\ log' = Logged(p, Event("upload", filename[p], "error"))
          /\ UNCHANGED store
    /\ pc' = [pc EXCEPT ![p] = "item"]
    /\ idx' = [idx EXCEPT ![p] = @ + 1]
    /\ UNCHANGED <<variant, clock, dirExists, compVars, wordsets, first, second, firstIdx,
                   secondIdx, filename, nameAt, loaded>>

\* await new Promise(resolve => setTimeout(resolve, intervalMs)), then the
\* next turn of while (true)
Sleep(p) ==
    /\ variant \in LoopVariants
    /\ pc[p] \in {"sleep", "sleepEarly"}
    /\ pc' = [pc EXCEPT ![p] = "fetch"]
    /\ UNCHANGED <<variant, envVars, compVars, wordsets, first, second, firstIdx, secondIdx,
                   filename, nameAt, idx, log, loaded>>

\* the wall clock advances
Tick ==
    /\ variant \in Variants
    /\ clock < MaxClock
    /\ clock' = clock + 1
    /\ UNCHANGED <<variant, dirExists, store, compVars, procVars>>

Terminal == {"done", "failed", "killed", "off"}

\* the process of a file-based run is terminated from outside
Kill(p) ==
    /\ variant = "fileRun"
    /\ pc[p] \notin Terminal
    /\ pc' = [pc EXCEPT ![p] = "killed"]
    /\ UNCHANGED <<variant, envVars, compVars, wordsets, first, second, firstIdx, secondIdx,
                   filename, nameAt, idx, log, loaded>>

(***************************************************************************)
(* Spec: two single-pass runs of the same program race against the same    *)
(* destination, or one process runs a loop                                 *)
(***************************************************************************)
Init ==
    /\ variant \in Variants
    /\ clock = 0
    /\ dirExists \in (IF variant = "fileRun" THEN BOOLEAN ELSE {FALSE})
    /\ store = <<>>
    /\ IdleProcs([p \in Procs |-> IF variant = "fileRun" THEN "start"
                                  ELSE IF variant \in LoopVariants /\ p # 1 THEN "off"
                                  ELSE "fetch"])
    /\ wordsets = [p \in Procs |-> <<>>]
    /\ IdleComposer

Step(p) ==
    \/ Mkdir(p) \/ Fetch(p) \/ Check(p)
    \/ PickFirst(p) \/ PickReturn(p) \/ LogSelected(p)
    \/ Generate(p) \/ Name(p) \/ Upload(p)
    \/ WriteOpen(p) \/ WriteFinish(p) \/ WriteMarker(p)
    \/ Item(p) \/ GenerateImage(p) \/ NameImage(p) \/ UploadImage(p)
    \/ Sleep(p)

Next ==
    \/ \E p \in Procs : Step(p) \/ Redraw(p) \/ Kill(p)
    \/ Tick

Spec == Init /\ [][Next]_vars

\* every awaited call settles and every timer fires; draws are fair
FairSpec ==
    /\ Spec
    /\ \A p \in Procs : WF_vars(Step(p)) /\ \A j \in 0..MaxDraw : WF_vars(RedrawAt(p, j))

(***************************************************************************)
(* Claims about the runs and the loops                                     *)
(***************************************************************************)
Events(p, ops) == {k \in 1..Len(log[p]) : log[p][k].op \in ops}
Last(s) == s[Len(s)]
PayloadOf(marker) == [marker EXCEPT !.suffix = ""]
IsMarker(name) == name.suffix = ".done"

\* C1: in the file-based run() a failed payload write is followed by no
\* marker write at all, a successful one is followed next by the marker write
\* at the payload's name plus ".done", and no marker write happens otherwise.
C1_MarkerAfterPayload ==
    variant = "fileRun" =>
        \A p \in Procs :
            /\ \A k \in Events(p, {"write"}) :
                  IF log[p][k].outcome = "ok"
                  THEN /\ k = Len(log[p]) => pc[p] \in {"marker", "killed"}
                       /\ k < Len(log[p]) =>
                              /\ log[p][k + 1].op = "marker"
                              /\ log[p][k + 1].name.suffix = ".done"
                              /\ PayloadOf(log[p][k + 1].name) = log[p][k].name
                  ELSE Events(p, {"marker"}) = {} /\ pc[p] \notin {"marker", "done"}
            /\ \A k \in Events(p, {"marker"}) :
                  k > 1 /\ log[p][k - 1].op = "write" /\ log[p][k - 1].outcome = "ok"
            /\ pc[p] = "marker" => log[p] # <<>> /\ Last(log[p]).op = "write"

\* a run that finished: payload written, marker written next
C1_Witness ==
    \E p \in Procs :
        /\ variant = "fileRun"
        /\ pc[p] = "done"
        /\ Len(log[p]) >= 2
        /\ Last(log[p]) = Event("marker", MarkerPath(filename[p]), "ok")
        /\ log[p][Len(log[p]) - 1] = Event("write", filename[p], "ok")

\* C2: in the output directory a marker never stands next to an absent or
\* partially written payload.
C2_MarkerImpliesFullPayload ==
    variant = "fileRun" =>
        \A n \in DOMAIN store :
            IsMarker(n) => PayloadOf(n) \in DOMAIN store /\ store[PayloadOf(n)].state = "full"

\* C3: in the bucket programs no step changes or removes an object the
\* destination already holds, an upload to a name that exists ends in an
\* error, and a payload is uploaded at most once (no second attempt, under
\* the same or another name).
C3_Step ==
    variant \in BucketVariants =>
        /\ \A n \in DOMAIN store : n \in DOMAIN store' /\ store'[n] = store[n]
        /\ \A p \in Procs :
              /\ Cardinality({k \in 1..Len(log'[p]) : log'[p][k].op = "upload"}) <= 1
              /\ (log'[p] # log[p] /\ log'[p] # <<>> /\ Last(log'[p]).op = "upload"
                  /\ Last(log'[p]).name \in DOMAIN store)
                     => Last(log'[p]).outcome \in {"collision", "error"}

C3_CollisionGuard == [][C3_Step]_vars

\* a run lost the race for a name the other run had uploaded
C3_Witness ==
    \E p \in Procs :
        /\ variant = "bucketRun"
        /\ pc[p] = "done"
        /\ log[p] # <<>>
        /\ Last(log[p]) = Event("upload", filename[p], "collision")
        /\ store[filename[p]].by # p

\* C4: a loop iteration starts only out of a sleep, and every iteration is
\* eventually followed by the next one.
C4_IterationIsolation ==
    /\ [][\A p \in Procs :
             (variant \in LoopVariants /\ pc[p] # "fetch" /\ pc'[p] = "fetch")
                 => pc[p] \in {"sleep", "sleepEarly"}]_vars
    /\ \A p \in Procs :
          [](variant \in LoopVariants /\ pc[p] \notin {"off", "fetch"} => <>(pc[p] = "fetch"))

\* the pass of p ended at the size check
Aborted(p) == loaded[p] < 2 /\ pc[p] \in {"done", "sleepEarly"}

\* C5 as stated: a pass that found fewer than two wordsets has called nothing
\* and changed nothing, the output directory included.
C5_TooFewChangesNothing ==
    \A p \in Procs :
        (variant \in PairingVariants /\ Aborted(p)) =>
            \A k \in 1..Len(log[p]) : log[p][k].op = "mkdir" /\ log[p][k].outcome = "exists"

\* C5 amended: a pass whose size check saw fewer than two wordsets makes no
\* generation call and no payload, marker or upload write; the one thing it
\* may have done is the file-based run's mkdir of OUTPUT_DIR, before loading.
C5_TooFewWritesNoOutput ==
    \A p \in Procs :
        (variant \in PairingVariants /\ loaded[p] < 2) =>
            /\ Events(p, {"generate", "write", "marker", "upload"}) = {}
            /\ Events(p, {"mkdir"}) # {} => variant = "fileRun"
            /\ pc[p] \notin {"pick", "pickLoop", "picked", "generate", "name", "upload",
                             "write", "writing", "marker"}

\* a file-based run that ended at the size check, having made OUTPUT_DIR
C5_Witness ==
    \E p \in Procs :
        /\ variant = "fileRun"
        /\ Aborted(p)
        /\ wordsets[p] # <<>>
        /\ log[p] = <<Event("mkdir", NoName, "created")>>

SameSecond(t, u) == t \div TicksPerSec = u \div TicksPerSec
SameMinute(t, u) == t \div (TicksPerSec * SecPerMin) = u \div (TicksPerSec * SecPerMin)
Named(p) == filename[p] # NoName
Uploaded(p, outcome) == \E k \in Events(p, {"upload"}) : log[p][k].outcome = outcome
\* the name the program of p computes at clock tick t for p's index
NameAtTick(p, t) ==
    IF variant = "imageLoop" THEN getTimestampedFilename(t, filename[p].index - 1)
    ELSE NameFor(variant, t)

\* C8 as stated: names computed within one clock minute are equal, so of two
\* uploads in one minute the second hits the collision guard.
C8_MinutePrecision ==
    /\ \A p \in Procs : \A t \in 0..MaxClock :
          (Named(p) /\ SameMinute(nameAt[p], t)) => NameAtTick(p, t) = filename[p]
    /\ \A p, q \in Procs :
          (variant = "bucketRun" /\ p # q /\ Named(p) /\ Named(q)
           /\ SameMinute(nameAt[p], nameAt[q]))
              => ~(Uploaded(p, "ok") /\ Uploaded(q, "ok"))

\* C8 amended: the name depends on the clock at second precision: two
\* computations give the same name exactly when they fall in the same clock
\* second, so of two uploads in one second the second hits the guard.
C8_SecondPrecision ==
    /\ \A p \in Procs : \A t \in 0..MaxClock :
          Named(p) => (SameSecond(nameAt[p], t) <=> NameAtTick(p, t) = filename[p])
    /\ \A p, q \in Procs :
          (variant = "bucketRun" /\ p # q /\ Named(p) /\ Named(q)
           /\ SameSecond(nameAt[p], nameAt[q]))
              => ~(Uploaded(p, "ok") /\ Uploaded(q, "ok"))

\* two runs named their output at different ticks of one second; one lost
C8_Witness ==
    \E p, q \in Procs :
        /\ variant = "bucketRun"
        /\ p # q
        /\ nameAt[p] # nameAt[q]
        /\ SameSecond(nameAt[p], nameAt[q])
        /\ Uploaded(p, "ok")
        /\ Uploaded(q, "collision")

\* C9: in the prompt loop an iteration whose generatePrompts returned a batch
\* has, by the time it sleeps, called uploadPromptsToBucket exactly once with
\* a generated-prompts-<timestamp>.json name.
C9_GeneratedThenUploaded ==
    \A p \in Procs :
        (variant = "promptLoop" /\ pc[p] = "sleep"
         /\ \E k \in Events(p, {"generate"}) : log[p][k].outcome = "ok")
            => /\ Cardinality(Events(p, {"upload"})) = 1
               /\ \A k \in Events(p, {"upload"}) :
                     log[p][k].name.prefix = "generated-prompts" /\ log[p][k].name.ext = ".json"

====
